---- MODULE Spec2Model ----
(***************************************************************************)
(* Model of validateConfig (the viewer's Config validator).                *)
(*                                                                         *)
(* A JavaScript value is a record [t, b, n, s]: t is its type tag, b its   *)
(* boolean payload, n its numeric payload and s its string payload (a      *)
(* sequence of tokens).  A candidate is a value together with the          *)
(* properties that can be read from it; reading a property an object does  *)
(* not hold yields undefined.                                              *)
(***************************************************************************)
EXTENDS Integers, Sequences, FiniteSets, TLC

VARIABLES config, pc, result

vars == <<config, pc, result>>

---------------------------------------------------------------------------
(* Bounds of the model *)

\* How many properties of a candidate differ from the minimal valid object.
MaxEdits == 2

\* How far around 0 and around the timeout limit the numeric inputs range.
Margin == 1

\* How far around the pin length the lengths of digit strings range.
PinSlack == 1

(* Program constants *)

\* Upper limit of failOnLoadErrorAfter and loadTimeout.
TimeoutMax == 10000

\* Number of digits of an rtvPin, /^\d{15}$/.
PinDigits == 15

---------------------------------------------------------------------------
(* JavaScript values *)

Undef == [t |-> "undefined", b |-> FALSE, n |-> 0, s |-> <<>>]

Null == [t |-> "null", b |-> FALSE, n |-> 0, s |-> <<>>]

Bool(x) == [t |-> "boolean", b |-> x, n |-> 0, s |-> <<>>]

Num(x) == [t |-> "number", b |-> FALSE, n |-> x, s |-> <<>>]

Str(x) == [t |-> "string", b |-> FALSE, n |-> 0, s |-> x]

\* An array or a nested object used as a property value.
Obj == [t |-> "object", b |-> FALSE, n |-> 0, s |-> <<>>]

Func == [t |-> "function", b |-> FALSE, n |-> 0, s |-> <<>>]

\* The typeof operator: typeof null is 'object'.
TypeOf(v) == IF v.t = "null" THEN "object" ELSE v.t

\* ToBoolean, as applied by &&, ! and if.
Truthy(v) ==
  CASE v.t = "undefined" -> FALSE
    [] v.t = "null" -> FALSE
    [] v.t = "boolean" -> v.b
    [] v.t = "number" -> v.n # 0
    [] v.t = "string" -> v.s # <<>>
    [] OTHER -> TRUE

---------------------------------------------------------------------------
(* The URL predicates of ./util *)

Letters == {"h", "t", "p", "s", "e", "c", "r", "x", "u"}

Digits == {"0", "1", "2", "3", "4", "5", "6", "7", "8", "9"}

\* The placeholder token of a URL template.
Placeholder == "%s"

\* s starts with a scheme (letters, then ":") followed by something.
HasScheme(s) ==
  \E i \in 2..(Len(s) - 1) :
    /\ s[i] = ":"
    /\ \A j \in 1..(i - 1) : s[j] \in Letters

isValidURL(v) ==
  /\ v.t = "string"
  /\ HasScheme(v.s)
  /\ \A i \in 1..Len(v.s) : v.s[i] # Placeholder

isValidURLWithPlaceholder(v) ==
  /\ v.t = "string"
  /\ HasScheme(v.s)
  /\ Cardinality({i \in 1..Len(v.s) : v.s[i] = Placeholder}) <= 1

---------------------------------------------------------------------------
(* Candidates *)

Fields ==
  {"relayPageURL", "useOpaqueOrigin", "imageProxyURL", "xhrProxyURL",
   "templateProxyURL", "transformTemplateProxyOutput",
   "processTemplateProxyOutput", "linkRedirectURL", "failOnLoadErrorAfter",
   "loadTimeout", "rtvPin", "runtimeCDN", "skipPreprocessingModules",
   "maximumAMPSize", "strictCSSSanitization", "developmentMode"}

\* The fields the validator never reads.
PassThrough ==
  {"skipPreprocessingModules", "strictCSSSanitization", "developmentMode"}

NoProps == [f \in Fields |-> Undef]

\* config.name for a candidate that is not null or undefined.
Get(c, name) == c.props[name]

\* Reading a property of null or undefined raises a TypeError.
ReadThrows(c) == c.val.t \in {"null", "undefined"}

---------------------------------------------------------------------------
(* The checks of validateConfig, each TRUE when its `if` does not return *)

TypeGuardOk(c) == TypeOf(c.val) = "object"

RelayPageURLOk(c) == isValidURL(Get(c, "relayPageURL"))

\* Mutant: a truthiness test in place of the typeof test.
UseOpaqueOriginOk_Truthy(c) == Truthy(Get(c, "useOpaqueOrigin"))

UseOpaqueOriginOk(c) == TypeOf(Get(c, "useOpaqueOrigin")) = "boolean"

ImageProxyURLOk(c) ==
  ~(/\ Truthy(Get(c, "imageProxyURL"))
    /\ ~isValidURLWithPlaceholder(Get(c, "imageProxyURL")))

XhrProxyURLOk(c) ==
  ~(/\ Truthy(Get(c, "xhrProxyURL"))
    /\ ~isValidURL(Get(c, "xhrProxyURL")))

\* Mutant: the dependency is tested on imageProxyURL, not on xhrProxyURL.
TemplateRequiresXhrOk_WrongField(c) ==
  ~(/\ ~Truthy(Get(c, "imageProxyURL"))
    /\ Truthy(Get(c, "templateProxyURL")))

TemplateRequiresXhrOk(c) ==
  ~(/\ ~Truthy(Get(c, "xhrProxyURL"))
    /\ Truthy(Get(c, "templateProxyURL")))

TemplateProxyURLOk(c) ==
  ~(/\ Truthy(Get(c, "templateProxyURL"))
    /\ ~isValidURL(Get(c, "templateProxyURL")))

\* The code reads processTemplateProxyOutput, a property Config does not
\* declare; the declared one is transformTemplateProxyOutput.
TransformRequiresTemplateOk(c) ==
  ~(/\ ~Truthy(Get(c, "templateProxyURL"))
    /\ Truthy(Get(c, "processTemplateProxyOutput")))

LinkRedirectURLOk(c) ==
  ~(/\ Truthy(Get(c, "linkRedirectURL"))
    /\ ~isValidURLWithPlaceholder(Get(c, "linkRedirectURL")))

\* s.match(/^\d{15}$/) finds a match.
MatchesPin(s) ==
  /\ Len(s) = PinDigits
  /\ \A i \in 1..Len(s) : s[i] \in Digits

\* Mutant: the regular expression has lost its $ anchor, /^\d{15}/.
RtvPinOk_Unanchored(c) ==
  ~(/\ Truthy(Get(c, "rtvPin"))
    /\ \/ TypeOf(Get(c, "rtvPin")) # "string"
       \/ Len(Get(c, "rtvPin").s) < PinDigits
       \/ ~MatchesPin(SubSeq(Get(c, "rtvPin").s, 1, PinDigits)))

RtvPinOk(c) ==
  ~(/\ Truthy(Get(c, "rtvPin"))
    /\ \/ TypeOf(Get(c, "rtvPin")) # "string"
       \/ ~MatchesPin(Get(c, "rtvPin").s))

RuntimeCDNOk(c) ==
  ~(/\ Truthy(Get(c, "runtimeCDN"))
    /\ ~isValidURL(Get(c, "runtimeCDN")))

FailOnLoadErrorAfterOk(c) ==
  ~(/\ Truthy(Get(c, "failOnLoadErrorAfter"))
    /\ \/ TypeOf(Get(c, "failOnLoadErrorAfter")) # "number"
       \/ Get(c, "failOnLoadErrorAfter").n < 0
       \/ Get(c, "failOnLoadErrorAfter").n > TimeoutMax)

\* Mutant: the upper limit is exclusive, >= in place of >.
LoadTimeoutOk_Exclusive(c) ==
  ~(/\ Truthy(Get(c, "loadTimeout"))
    /\ \/ TypeOf(Get(c, "loadTimeout")) # "number"
       \/ Get(c, "loadTimeout").n < 0
       \/ Get(c, "loadTimeout").n >= TimeoutMax)

LoadTimeoutOk(c) ==
  ~(/\ Truthy(Get(c, "loadTimeout"))
    /\ \/ TypeOf(Get(c, "loadTimeout")) # "number"
       \/ Get(c, "loadTimeout").n < 0
       \/ Get(c, "loadTimeout").n > TimeoutMax)

\* Mutant: the exclusion fires only when rtvPin is set and runtimeCDN is not.
ExclusiveOk_Negated(c) ==
  ~(Truthy(Get(c, "rtvPin")) /\ ~Truthy(Get(c, "runtimeCDN")))

ExclusiveOk(c) ==
  ~(Truthy(Get(c, "rtvPin")) /\ Truthy(Get(c, "runtimeCDN")))

MaximumAMPSizeOk(c) ==
  ~(/\ Truthy(Get(c, "maximumAMPSize"))
    /\ \/ TypeOf(Get(c, "maximumAMPSize")) # "number"
       \/ Get(c, "maximumAMPSize").n < 0)

---------------------------------------------------------------------------
(* validateConfig: "true", "false", or "throw" for an uncaught TypeError *)

\* Mutant: the `if` of the rtvPin/runtimeCDN exclusion has lost its return.
validateConfig_LostReturn(c) ==
  IF ~TypeGuardOk(c) THEN "false"
  ELSE IF ReadThrows(c) THEN "throw"
  ELSE IF ~RelayPageURLOk(c) THEN "false"
  ELSE IF ~UseOpaqueOriginOk(c) THEN "false"
  ELSE IF ~ImageProxyURLOk(c) THEN "false"
  ELSE IF ~XhrProxyURLOk(c) THEN "false"
  ELSE IF ~TemplateRequiresXhrOk(c) THEN "false"
  ELSE IF ~TemplateProxyURLOk(c) THEN "false"
  ELSE IF ~TransformRequiresTemplateOk(c) THEN "false"
  ELSE IF ~LinkRedirectURLOk(c) THEN "false"
  ELSE IF ~RtvPinOk(c) THEN "false"
  ELSE IF ~RuntimeCDNOk(c) THEN "false"
  ELSE IF ~FailOnLoadErrorAfterOk(c) THEN "false"
  ELSE IF ~LoadTimeoutOk(c) THEN "false"
  ELSE IF ~MaximumAMPSizeOk(c) THEN "false"
  ELSE "true"

\* Mutant: the validator also requires developmentMode, when set, to be a
\* boolean.
validateConfig_ChecksDevelopmentMode(c) ==
  IF ~TypeGuardOk(c) THEN "false"
  ELSE IF ReadThrows(c) THEN "throw"
  ELSE IF ~RelayPageURLOk(c) THEN "false"
  ELSE IF ~UseOpaqueOriginOk(c) THEN "false"
  ELSE IF ~ImageProxyURLOk(c) THEN "false"
  ELSE IF ~XhrProxyURLOk(c) THEN "false"
  ELSE IF ~TemplateRequiresXhrOk(c) THEN "false"
  ELSE IF ~TemplateProxyURLOk(c) THEN "false"
  ELSE IF ~TransformRequiresTemplateOk(c) THEN "false"
  ELSE IF ~LinkRedirectURLOk(c) THEN "false"
  ELSE IF ~RtvPinOk(c) THEN "false"
  ELSE IF ~RuntimeCDNOk(c) THEN "false"
  ELSE IF ~FailOnLoadErrorAfterOk(c) THEN "false"
  ELSE IF ~LoadTimeoutOk(c) THEN "false"
  ELSE IF ~ExclusiveOk(c) THEN "false"
  ELSE IF ~MaximumAMPSizeOk(c) THEN "false"
  ELSE IF /\ Truthy(Get(c, "developmentMode"))
          /\ TypeOf(Get(c, "developmentMode")) # "boolean" THEN "false"
  ELSE "true"

validateConfig(c) ==
  IF ~TypeGuardOk(c) THEN "false"
  ELSE IF ReadThrows(c) THEN "throw"
  ELSE IF ~RelayPageURLOk(c) THEN "false"
  ELSE IF ~UseOpaqueOriginOk(c) THEN "false"
  ELSE IF ~ImageProxyURLOk(c) THEN "false"
  ELSE IF ~XhrProxyURLOk(c) THEN "false"
  ELSE IF ~TemplateRequiresXhrOk(c) THEN "false"
  ELSE IF ~TemplateProxyURLOk(c) THEN "false"
  ELSE IF ~TransformRequiresTemplateOk(c) THEN "false"
  ELSE IF ~LinkRedirectURLOk(c) THEN "false"
  ELSE IF ~RtvPinOk(c) THEN "false"
  ELSE IF ~RuntimeCDNOk(c) THEN "false"
  ELSE IF ~FailOnLoadErrorAfterOk(c) THEN "false"
  ELSE IF ~LoadTimeoutOk(c) THEN "false"
  ELSE IF ~ExclusiveOk(c) THEN "false"
  ELSE IF ~MaximumAMPSizeOk(c) THEN "false"
  ELSE "true"

---------------------------------------------------------------------------
(* The inputs *)

PlainURL == <<"h", "t", "t", "p", "s", ":", "/", "/", "e", ".", "c", "/", "r">>

\* A URL template: a URL holding one placeholder token.
TemplateURL == PlainURL \o <<"?", "u", "=", Placeholder>>

\* No scheme: not an absolute URL.
NotURL == <<"/", "r">>

DigitCycle == <<"1", "2", "3", "4", "5", "6", "7", "8", "9", "0">>

\* "1234567890123..." of length k.
DigitString(k) == [i \in 1..k |-> DigitCycle[((i - 1) % 10) + 1]]

\* PinDigits characters, the last one not a digit.
AlmostPin == [DigitString(PinDigits) EXCEPT ![PinDigits] = "x"]

Numbers == ((0 - Margin)..Margin) \cup ((TimeoutMax - Margin)..(TimeoutMax + Margin))

URLInputs ==
  {Undef, Str(<<>>), Str(PlainURL), Str(TemplateURL), Str(NotURL), Num(1)}

FlagInputs ==
  {Undef, Bool(TRUE), Bool(FALSE), Str(<<"t", "r", "u", "e">>), Num(1)}

NumberInputs ==
  {Undef, Str(DigitString(PinDigits)), Bool(TRUE)} \cup {Num(k) : k \in Numbers}

PinInputs ==
  {Undef, Str(<<>>), Str(AlmostPin), Num(1), Obj}
    \cup {Str(DigitString(k)) : k \in (PinDigits - PinSlack)..(PinDigits + PinSlack)}

PassThroughInputs == {Undef, Bool(TRUE), Bool(FALSE), Obj, Str(<<"t", "r", "u", "e">>)}

\* The values a property of a candidate is drawn from.
Inputs(f) ==
  CASE f \in {"relayPageURL", "imageProxyURL", "xhrProxyURL", "templateProxyURL",
              "linkRedirectURL", "runtimeCDN"} -> URLInputs
    [] f \in {"useOpaqueOrigin", "transformTemplateProxyOutput",
              "processTemplateProxyOutput"} -> FlagInputs
    [] f \in {"failOnLoadErrorAfter", "loadTimeout", "maximumAMPSize"} -> NumberInputs
    [] f = "rtvPin" -> PinInputs
    [] f \in PassThrough -> PassThroughInputs

\* {relayPageURL: <a URL>, useOpaqueOrigin: true}
MinimalProps ==
  [NoProps EXCEPT !["relayPageURL"] = Str(PlainURL),
                  !["useOpaqueOrigin"] = Bool(TRUE)]

\* The values of property f in a candidate whose properties of S are edited.
Choices(f, S) == IF f \in S THEN Inputs(f) ELSE {MinimalProps[f]}

\* The objects that differ from the minimal one in properties of S only.
Edited(S) ==
  [relayPageURL : Choices("relayPageURL", S),
   useOpaqueOrigin : Choices("useOpaqueOrigin", S),
   imageProxyURL : Choices("imageProxyURL", S),
   xhrProxyURL : Choices("xhrProxyURL", S),
   templateProxyURL : Choices("templateProxyURL", S),
   transformTemplateProxyOutput : Choices("transformTemplateProxyOutput", S),
   processTemplateProxyOutput : Choices("processTemplateProxyOutput", S),
   linkRedirectURL : Choices("linkRedirectURL", S),
   failOnLoadErrorAfter : Choices("failOnLoadErrorAfter", S),
   loadTimeout : Choices("loadTimeout", S),
   rtvPin : Choices("rtvPin", S),
   runtimeCDN : Choices("runtimeCDN", S),
   skipPreprocessingModules : Choices("skipPreprocessingModules", S),
   maximumAMPSize : Choices("maximumAMPSize", S),
   strictCSSSanitization : Choices("strictCSSSanitization", S),
   developmentMode : Choices("developmentMode", S)]

\* The sets of MaxEdits properties.
EditSets == {S \in SUBSET Fields : Cardinality(S) = MaxEdits}

Primitives ==
  {Undef, Null, Bool(TRUE), Bool(FALSE), Num(0), Num(1), Str(<<>>), Str(PlainURL), Func}

---------------------------------------------------------------------------
(* The state machine: the host holds a candidate and calls validateConfig *)

\* The candidate is a primitive, null, an object without any of the
\* properties, or an object that differs from the minimal valid one in at most
\* MaxEdits properties.
Init ==
  /\ \/ \E v \in Primitives \cup {Obj} : config = [val |-> v, props |-> NoProps]
     \/ \E S \in EditSets : \E p \in Edited(S) : config = [val |-> Obj, props |-> p]
  /\ pc = "start"
  /\ result = "none"

\* One call of validateConfig(config): it assigns nothing to config.
Validate ==
  /\ pc = "start"
  /\ result' = validateConfig(config)
  /\ pc' = "done"
  /\ UNCHANGED config

Next == Validate

Spec == Init /\ [][Next]_vars

---------------------------------------------------------------------------
(* Vocabulary of the properties *)

Done == pc = "done"

Accepted == Done /\ result = "true"

Rejected == Done /\ result = "false"

\* The candidate is an object other than null.
IsObject(c) == c.val.t = "object"

\* c with the properties of S removed.
Without(c, S) ==
  [c EXCEPT !.props = [f \in Fields |-> IF f \in S THEN Undef ELSE c.props[f]]]

\* c with property f set to v.
With(c, f, v) == [c EXCEPT !.props[f] = v]

\* An optional field counts as present when it holds a truthy value; a falsy
\* one (undefined, 0, "", false) is treated as absent.
Present(c, f) == Truthy(Get(c, f))

\* A number in [0, TimeoutMax].
InTimeoutRange(v) == v.t = "number" /\ v.n >= 0 /\ v.n <= TimeoutMax

---------------------------------------------------------------------------
(* C1..C3 *)

\* C1: for every input that is not a non-null object (a number, a string,
\* undefined, null), validateConfig returns false.
C1_NonObjectReturnsFalse ==
  (Done /\ ~IsObject(config)) => result = "false"

\* C2: for every candidate, a call of validateConfig completes with a boolean
\* result; a failure is the value false and never a thrown error.
C2_AlwaysReturnsBoolean ==
  Done => result \in {"true", "false"}

\* C3: in every accepted config, a truthy transformTemplateProxyOutput implies
\* that templateProxyURL is present.
C3_TransformRequiresTemplate ==
  (Accepted /\ Truthy(Get(config, "transformTemplateProxyOutput")))
    => Present(config, "templateProxyURL")

---------------------------------------------------------------------------
(* C4..C8 *)

\* The config is valid apart from the properties of S.
OtherwiseValid(c, S) == validateConfig(Without(c, S)) = "true"

\* C4: in every accepted config, templateProxyURL present implies xhrProxyURL
\* present; an otherwise valid config with a valid templateProxyURL and no (or
\* a falsy) xhrProxyURL is rejected, and with a valid xhrProxyURL added it is
\* accepted.
C4_TemplateRequiresXhr ==
  (Done /\ IsObject(config)) =>
    /\ (result = "true" /\ Present(config, "templateProxyURL"))
         => Present(config, "xhrProxyURL")
    /\ (/\ OtherwiseValid(config, {"templateProxyURL", "xhrProxyURL"})
        /\ isValidURL(Get(config, "templateProxyURL"))
        /\ ~Present(config, "xhrProxyURL"))
         => /\ result = "false"
            /\ validateConfig(With(config, "xhrProxyURL", Str(PlainURL))) = "true"
    /\ (/\ OtherwiseValid(config, {"templateProxyURL", "xhrProxyURL"})
        /\ isValidURL(Get(config, "templateProxyURL"))
        /\ isValidURL(Get(config, "xhrProxyURL")))
         => result = "true"

\* A valid templateProxyURL without xhrProxyURL has been rejected, and the
\* same config with a valid xhrProxyURL is accepted.
C4_Witness ==
  /\ Rejected
  /\ IsObject(config)
  /\ OtherwiseValid(config, {"templateProxyURL", "xhrProxyURL"})
  /\ isValidURL(Get(config, "templateProxyURL"))
  /\ ~Present(config, "xhrProxyURL")
  /\ validateConfig(With(config, "xhrProxyURL", Str(PlainURL))) = "true"

\* C5: rtvPin and runtimeCDN are mutually exclusive: a config in which both
\* are set is rejected, even when each alone is valid, and the same config
\* with either one of the two removed is accepted.
C5_RtvPinExcludesRuntimeCDN ==
  (Done /\ IsObject(config)) =>
    /\ (Present(config, "rtvPin") /\ Present(config, "runtimeCDN"))
         => result = "false"
    /\ (/\ OtherwiseValid(config, {"rtvPin", "runtimeCDN"})
        /\ Get(config, "rtvPin").t = "string"
        /\ MatchesPin(Get(config, "rtvPin").s)
        /\ isValidURL(Get(config, "runtimeCDN")))
         => /\ result = "false"
            /\ validateConfig(Without(config, {"rtvPin"})) = "true"
            /\ validateConfig(Without(config, {"runtimeCDN"})) = "true"
    /\ (/\ OtherwiseValid(config, {"rtvPin", "runtimeCDN"})
        /\ Get(config, "rtvPin").t = "string"
        /\ MatchesPin(Get(config, "rtvPin").s)
        /\ ~Present(config, "runtimeCDN"))
         => result = "true"
    /\ (/\ OtherwiseValid(config, {"rtvPin", "runtimeCDN"})
        /\ ~Present(config, "rtvPin")
        /\ isValidURL(Get(config, "runtimeCDN")))
         => result = "true"

\* A 15-digit rtvPin together with a valid runtimeCDN has been rejected.
C5_Witness ==
  /\ Rejected
  /\ IsObject(config)
  /\ OtherwiseValid(config, {"rtvPin", "runtimeCDN"})
  /\ Get(config, "rtvPin") = Str(DigitString(PinDigits))
  /\ isValidURL(Get(config, "runtimeCDN"))

\* C6: every accepted config has a relayPageURL satisfying isValidURL and a
\* useOpaqueOrigin of type boolean, and the minimal object holding only a
\* valid relayPageURL and a boolean useOpaqueOrigin is accepted.
C6_RequiredFields ==
  Done =>
    /\ result = "true" =>
         /\ isValidURL(Get(config, "relayPageURL"))
         /\ Get(config, "useOpaqueOrigin").t = "boolean"
    /\ (/\ IsObject(config)
        /\ Without(config, {"relayPageURL", "useOpaqueOrigin"}).props = NoProps
        /\ isValidURL(Get(config, "relayPageURL"))
        /\ Get(config, "useOpaqueOrigin").t = "boolean")
         => result = "true"
    /\ (/\ IsObject(config)
        /\ Get(config, "useOpaqueOrigin").t # "boolean")
         => result = "false"

\* The minimal object has been accepted.
C6_Witness ==
  /\ Accepted
  /\ config = [val |-> Obj, props |-> MinimalProps]

\* C7: every present optional field of an accepted config satisfies its own
\* constraint: imageProxyURL and linkRedirectURL satisfy
\* isValidURLWithPlaceholder; xhrProxyURL, templateProxyURL and runtimeCDN
\* satisfy isValidURL; rtvPin is a string of exactly 15 decimal digits;
\* failOnLoadErrorAfter and loadTimeout are numbers in [0, 10000];
\* maximumAMPSize is a number >= 0.
C7_OptionalFieldsValid ==
  Accepted =>
    /\ \A f \in {"imageProxyURL", "linkRedirectURL"} :
         Present(config, f) => isValidURLWithPlaceholder(Get(config, f))
    /\ \A f \in {"xhrProxyURL", "templateProxyURL", "runtimeCDN"} :
         Present(config, f) => isValidURL(Get(config, f))
    /\ Present(config, "rtvPin") =>
         /\ Get(config, "rtvPin").t = "string"
         /\ Len(Get(config, "rtvPin").s) = PinDigits
         /\ \A i \in 1..Len(Get(config, "rtvPin").s) :
              Get(config, "rtvPin").s[i] \in Digits
    /\ \A f \in {"failOnLoadErrorAfter", "loadTimeout"} :
         Present(config, f) => InTimeoutRange(Get(config, f))
    /\ Present(config, "maximumAMPSize") =>
         /\ Get(config, "maximumAMPSize").t = "number"
         /\ Get(config, "maximumAMPSize").n >= 0

\* A config with an rtvPin and a loadTimeout has been accepted.
C7_Witness ==
  /\ Accepted
  /\ Present(config, "rtvPin")
  /\ Present(config, "loadTimeout")

\* The value passes the range check: falsy (0 included) or a number in range.
TimeoutAllowed(v) == ~Truthy(v) \/ InTimeoutRange(v)

\* C8: for an otherwise valid config, loadTimeout and failOnLoadErrorAfter are
\* each checked against [0, 10000], independently of each other: 10001, any
\* larger number, any negative number or a truthy non-number is rejected;
\* 10000 is accepted; 0 is treated as absent and accepted.
C8_TimeoutRange ==
  (/\ Done
   /\ IsObject(config)
   /\ OtherwiseValid(config, {"loadTimeout", "failOnLoadErrorAfter"})) =>
    /\ result = "true" <=>
         /\ TimeoutAllowed(Get(config, "loadTimeout"))
         /\ TimeoutAllowed(Get(config, "failOnLoadErrorAfter"))
    /\ \A f \in {"loadTimeout", "failOnLoadErrorAfter"} :
         /\ Get(config, f) = Num(TimeoutMax + 1) => result = "false"
         /\ (Get(config, f).t = "number" /\ Get(config, f).n < 0)
              => result = "false"
         /\ (Truthy(Get(config, f)) /\ Get(config, f).t # "number")
              => result = "false"
         /\ (/\ Get(config, f) \in {Num(TimeoutMax), Num(0)}
             /\ Without(config, {f}) = Without(config, {"loadTimeout", "failOnLoadErrorAfter"}))
              => result = "true"

\* loadTimeout: 10000 has been accepted.
C8_Witness ==
  /\ Accepted
  /\ Get(config, "loadTimeout") = Num(TimeoutMax)

---------------------------------------------------------------------------
(* C9, C10 *)

\* The checks, in the order of the source.
SourceOrder ==
  <<"typeGuard", "relayPageURL", "useOpaqueOrigin", "imageProxyURL",
    "xhrProxyURL", "templateRequiresXhr", "templateProxyURL",
    "transformRequiresTemplate", "linkRedirectURL", "rtvPin", "runtimeCDN",
    "failOnLoadErrorAfter", "loadTimeout", "exclusive", "maximumAMPSize">>

NumChecks == Len(SourceOrder)

\* The check of the given name.
CheckOk(name, c) ==
  CASE name = "typeGuard" -> TypeGuardOk(c)
    [] name = "relayPageURL" -> RelayPageURLOk(c)
    [] name = "useOpaqueOrigin" -> UseOpaqueOriginOk(c)
    [] name = "imageProxyURL" -> ImageProxyURLOk(c)
    [] name = "xhrProxyURL" -> XhrProxyURLOk(c)
    [] name = "templateRequiresXhr" -> TemplateRequiresXhrOk(c)
    [] name = "templateProxyURL" -> TemplateProxyURLOk(c)
    [] name = "transformRequiresTemplate" -> TransformRequiresTemplateOk(c)
    [] name = "linkRedirectURL" -> LinkRedirectURLOk(c)
    [] name = "rtvPin" -> RtvPinOk(c)
    [] name = "runtimeCDN" -> RuntimeCDNOk(c)
    [] name = "failOnLoadErrorAfter" -> FailOnLoadErrorAfterOk(c)
    [] name = "loadTimeout" -> LoadTimeoutOk(c)
    [] name = "exclusive" -> ExclusiveOk(c)
    [] name = "maximumAMPSize" -> MaximumAMPSizeOk(c)

\* The plain conjunction of all the checks.
AllChecks(c) ==
  IF \A i \in 1..NumChecks : CheckOk(SourceOrder[i], c) THEN "true" ELSE "false"

\* The checks run one after the other in the given order, returning false at
\* the first one that fails.
RECURSIVE RunInOrder(_, _)
RunInOrder(order, c) ==
  IF order = <<>> THEN "true"
  ELSE IF ~CheckOk(Head(order), c) THEN "false"
  ELSE RunInOrder(Tail(order), c)

\* The source order rotated by k, the same reversed, and the source order
\* with two neighbours swapped.
IndexOrders ==
  {[i \in 1..NumChecks |-> ((i + k - 1) % NumChecks) + 1] : k \in 0..(NumChecks - 1)}
    \cup {[i \in 1..NumChecks |-> NumChecks - ((i + k - 1) % NumChecks)] :
            k \in 0..(NumChecks - 1)}
    \cup {[i \in 1..NumChecks |->
             IF i = k THEN k + 1 ELSE IF i = k + 1 THEN k ELSE i] :
            k \in 1..(NumChecks - 1)}

Orders == {[i \in 1..NumChecks |-> SourceOrder[q[i]]] : q \in IndexOrders}

\* C9: the order of the checks does not affect the result: for every non-null
\* object, the value returned by the short-circuiting sequence of checks
\* equals the plain conjunction of all the checks, and the result of running
\* the same checks in any other order.
C9_OrderIndependent ==
  (Done /\ IsObject(config)) =>
    /\ result = AllChecks(config)
    /\ \A order \in Orders : RunInOrder(order, config) = result

\* A config failing two different checks has been rejected.
C9_Witness ==
  /\ Rejected
  /\ IsObject(config)
  /\ Cardinality({i \in 1..NumChecks : ~CheckOk(SourceOrder[i], config)}) >= 2

\* c with the three pass-through fields set to x, y and z.
WithPassThrough(c, x, y, z) ==
  [c EXCEPT !.props["skipPreprocessingModules"] = x,
            !.props["strictCSSSanitization"] = y,
            !.props["developmentMode"] = z]

\* C10: the pass-through fields do not influence validation: any candidate
\* that differs from the validated one only in skipPreprocessingModules,
\* strictCSSSanitization or developmentMode gets the same result, and the call
\* leaves every field of the candidate unchanged.
C10_PassThroughIgnored ==
  /\ [](Done =>
          \A x, y, z \in PassThroughInputs :
            validateConfig(WithPassThrough(config, x, y, z)) = result)
  /\ [][config' = config]_vars

\* A config whose pass-through fields hold values of the wrong type has been
\* accepted.
C10_Witness ==
  /\ Accepted
  /\ Get(config, "developmentMode") = Str(<<"t", "r", "u", "e">>)
  /\ Get(config, "skipPreprocessingModules") = Bool(TRUE)

====
